---- MODULE Spec2Model ----
(***************************************************************************)
(* A model of the OpsOrch GitHub adapter: the three stdio RPC bridges      *)
(* (cmd/ticketplugin, cmd/deploymentplugin, cmd/teamplugin), the adapter   *)
(* constructors (ticket.New, deployment.New, team.New) and the pure        *)
(* normalisation functions of the providers.                               *)
(***************************************************************************)
EXTENDS Integers, Sequences, FiniteSets, TLC

\* Number of values the input stream holds before its end.
MaxReqs == 3
\* Number of members a team lists upstream.
MaxMembers == 1

(***************************************************************************)
(* Strings.  strings.ToLower is modelled character by character.           *)
(***************************************************************************)
UpperChars == "ABCDEFGHIJKLMNOPQRSTUVWXYZ"
LowerChars == "abcdefghijklmnopqrstuvwxyz"
DigitChars == "0123456789"

CharAt(s, i) == SubSeq(s, i, i)

IsCharOf(c, alphabet) == \E i \in 1..Len(alphabet) : CharAt(alphabet, i) = c

LowerChar(c) ==
    IF IsCharOf(c, UpperChars)
    THEN CharAt(LowerChars, CHOOSE i \in 1..Len(UpperChars) : CharAt(UpperChars, i) = c)
    ELSE c

RECURSIVE ToLower(_)
ToLower(s) == IF s = "" THEN "" ELSE LowerChar(CharAt(s, 1)) \o ToLower(Tail(s))

AllDigits(s) == s # "" /\ \A i \in 1..Len(s) : IsCharOf(CharAt(s, i), DigitChars)

\* strconv.Atoi / strconv.ParseInt(id, 10, 64) succeed on an optional sign
\* followed by at least one decimal digit (ids here are far below 2^63).
ParsesAsInt(s) ==
    IF s # "" /\ CharAt(s, 1) \in {"+", "-"} THEN AllDigits(Tail(s)) ELSE AllDigits(s)

(***************************************************************************)
(* Configuration: an untyped map.  A key is absent, holds a non-string or  *)
(* holds a string.                                                         *)
(***************************************************************************)
ConfigKeys == {"token", "owner", "repo", "organization", "defaultState"}

Absent == [t |-> "absent", v |-> ""]
Number == [t |-> "number", v |-> ""]
Str(s) == [t |-> "string", v |-> s]

\* cfg[key].(string): the comma-ok type assertion on a map read.
IsString(cfg, key) == cfg[key].t = "string"

NoProvider == [bound |-> FALSE, token |-> "", owner |-> "", repo |-> "",
               organization |-> "", defaultState |-> ""]

NewFailed(msg) == [ok |-> FALSE, err |-> msg, provider |-> NoProvider]

\* ticket.New with the owner check left out.
TicketNewMissingOwnerCheck(cfg) ==
    IF ~IsString(cfg, "token") THEN NewFailed("token is required")
    ELSE IF ~IsString(cfg, "repo") THEN NewFailed("repo is required")
    ELSE [ok |-> TRUE, err |-> "",
          provider |-> [bound |-> TRUE, token |-> cfg["token"].v,
                        owner |-> cfg["owner"].v, repo |-> cfg["repo"].v,
                        organization |-> "",
                        defaultState |-> IF IsString(cfg, "defaultState")
                                         THEN cfg["defaultState"].v ELSE "open"]]

\* ticket.New
TicketNew(cfg) ==
    IF ~IsString(cfg, "token") THEN NewFailed("token is required")
    ELSE IF ~IsString(cfg, "owner") THEN NewFailed("owner is required")
    ELSE IF ~IsString(cfg, "repo") THEN NewFailed("repo is required")
    ELSE [ok |-> TRUE, err |-> "",
          provider |-> [bound |-> TRUE, token |-> cfg["token"].v,
                        owner |-> cfg["owner"].v, repo |-> cfg["repo"].v,
                        organization |-> "",
                        defaultState |-> IF IsString(cfg, "defaultState")
                                         THEN cfg["defaultState"].v ELSE "open"]]

\* deployment.New testing only that each key is present, not that it is a string.
DeploymentNewAcceptsNonString(cfg) ==
    IF cfg["token"].t = "absent" THEN NewFailed("token is required")
    ELSE IF cfg["owner"].t = "absent" THEN NewFailed("owner is required")
    ELSE IF cfg["repo"].t = "absent" THEN NewFailed("repo is required")
    ELSE [ok |-> TRUE, err |-> "",
          provider |-> [bound |-> TRUE, token |-> cfg["token"].v,
                        owner |-> cfg["owner"].v, repo |-> cfg["repo"].v,
                        organization |-> "", defaultState |-> ""]]

\* deployment.New
DeploymentNew(cfg) ==
    IF ~IsString(cfg, "token") THEN NewFailed("token is required")
    ELSE IF ~IsString(cfg, "owner") THEN NewFailed("owner is required")
    ELSE IF ~IsString(cfg, "repo") THEN NewFailed("repo is required")
    ELSE [ok |-> TRUE, err |-> "",
          provider |-> [bound |-> TRUE, token |-> cfg["token"].v,
                        owner |-> cfg["owner"].v, repo |-> cfg["repo"].v,
                        organization |-> "", defaultState |-> ""]]

\* team.New
TeamNew(cfg) ==
    IF ~IsString(cfg, "token") THEN NewFailed("token is required")
    ELSE IF ~IsString(cfg, "organization") THEN NewFailed("organization is required")
    ELSE [ok |-> TRUE, err |-> "",
          provider |-> [bound |-> TRUE, token |-> cfg["token"].v,
                        owner |-> "", repo |-> "",
                        organization |-> cfg["organization"].v,
                        defaultState |-> ""]]

New(variant, cfg) ==
    CASE variant = "ticket" -> TicketNew(cfg)
      [] variant = "deployment" -> DeploymentNew(cfg)
      [] OTHER -> TeamNew(cfg)

(***************************************************************************)
(* The upstream API.  Each round trip either succeeds or fails; a failure  *)
(* is an HTTP error response with a status, or (status 0) an error that is *)
(* not an HTTP error response (transport failure, context cancelled).      *)
(***************************************************************************)
ErrStatuses == {0, 401, 403, 404, 422, 429, 500}

\* The failures the bridges are run against: an error that is no HTTP error
\* response (a transport failure, go-github's rate-limit error), forbidden
\* and not found.
BridgeStatuses == {0, 403, 404}

\* Provider.wrapError reporting a validation error as a generic one.
wrapErrorWithoutValidation(status) ==
    CASE status = 401 -> "unauthorized"
      [] status = 403 -> "forbidden"
      [] status = 404 -> "not_found"
      [] OTHER -> "provider_error"

\* Provider.wrapError (identical in ticket, deployment and team).
wrapError(status) ==
    CASE status = 401 -> "unauthorized"
      [] status = 403 -> "forbidden"
      [] status = 404 -> "not_found"
      [] status = 422 -> "bad_request"
      [] OTHER -> "provider_error"

\* What upstream does during one adapter operation: `fail` is the position
\* of the first failing call among those whose failure aborts the operation
\* (0: none fails), `status` its status, and `members` the outcome of the
\* per-member lookups of each listed team member.
MemberOutcomes == {"ok", "userFail", "roleFail"}

RECURSIVE SeqsUpTo(_, _)
SeqsUpTo(S, n) ==
    IF n = 0 THEN {<<>>}
    ELSE LET shorter == SeqsUpTo(S, n - 1)
         IN shorter \cup {Append(q, x) : q \in {r \in shorter : Len(r) = n - 1}, x \in S}

\* Only team.members lists members, so only it is run against member lists.
Upstreams(method) ==
    [fail : 0..3, status : BridgeStatuses,
     members : IF method = "team.members"
               THEN SeqsUpTo(MemberOutcomes, MaxMembers) ELSE {<<>>}]

OpOK(n) == [ok |-> TRUE, code |-> "", calls |-> n]
OpErr(code, n) == [ok |-> FALSE, code |-> code, calls |-> n]

\* IssueCalls issuing a failed call a second time before giving up.
IssueCallsRetrying(h, up, extra) ==
    IF up.fail \in 1..h THEN OpErr(wrapError(up.status), up.fail + 1)
    ELSE OpOK(h + extra)

\* An operation that issues `h` aborting calls in a row and returns
\* wrapError of the first one that fails, without issuing the rest.
IssueCalls(h, up, extra) ==
    IF up.fail \in 1..h THEN OpErr(wrapError(up.status), up.fail)
    ELSE OpOK(h + extra)

\* ticket Provider.Query / Get / Create / Update
TicketOp(method, id, up) ==
    CASE method = "ticket.query" -> IssueCalls(1, up, 0)
      [] method = "ticket.create" -> IssueCalls(1, up, 0)
      [] OTHER -> \* ticket.get, ticket.update: strconv.Atoi(id) first
            IF ~ParsesAsInt(id) THEN OpErr("bad_request", 0)
            ELSE IssueCalls(1, up, 0)

\* deployment Provider.Query / Get
DeploymentOp(method, id, up) ==
    CASE method = "deployment.query" -> IssueCalls(1, up, 0)
      [] OTHER -> \* deployment.get: strconv.ParseInt(id, 10, 64) first
            IF ~ParsesAsInt(id) THEN OpErr("bad_request", 0)
            ELSE IssueCalls(1, up, 0)

\* Round trips of the per-member loop of team Provider.Members: Users.Get,
\* then GetTeamMembershipByID unless Users.Get failed.
RECURSIVE MemberLookups(_)
MemberLookups(ms) ==
    IF ms = <<>> THEN 0
    ELSE (IF Head(ms) = "userFail" THEN 1 ELSE 2) + MemberLookups(Tail(ms))

\* team Provider.Query / Get / Members
TeamOp(method, id, up) ==
    CASE method = "team.query" -> IssueCalls(1, up, 0)
      [] method = "team.get" ->
            IF ParsesAsInt(id) THEN IssueCalls(2, up, 0)  \* Organizations.Get, GetTeamByID
            ELSE IssueCalls(1, up, 0)                     \* GetTeamBySlug
      [] OTHER -> \* team.members
            IF ParsesAsInt(id)
            THEN IssueCalls(2, up, MemberLookups(up.members))
            ELSE IssueCalls(3, up, MemberLookups(up.members))

(***************************************************************************)
(* The bridges.                                                            *)
(***************************************************************************)
VARIABLES
    variant,    \* which bridge binary runs: "ticket", "deployment" or "team"
    env,        \* OPSORCH_TEAM_CONFIG as the team bridge finds it
    pc,         \* position of main: boot, decode, init, dispatch, handle, log, done
    provider,   \* the adapter instance (NoProvider: the nil pointer)
    req,        \* the request decoded by the current loop iteration
    nread,      \* values consumed from the input stream
    nreq,       \* requests decoded successfully
    decErr,     \* the json.Decoder's sticky error ("none" when it has none)
    lastDecode, \* outcome of the most recent Decode call
    responses,  \* what was written to stdout, in order
    calls,      \* upstream round trips issued so far
    logged,     \* whether the team bridge has logged a decode error
    fn,         \* function-level checks: the function applied
    arg,        \* its input
    out         \* its output

vars == <<variant, env, pc, provider, req, nread, nreq, decErr, lastDecode,
          responses, calls, logged, fn, arg, out>>

bridgeVars == <<variant, env, pc, provider, req, nread, nreq, decErr, lastDecode,
                responses, calls, logged>>
pureVars == <<fn, arg, out>>

Variants == {"ticket", "deployment", "team"}

\* The switch statements of the three mains.
DispatchTable(v) ==
    CASE v = "ticket" -> {"ticket.query", "ticket.get", "ticket.create", "ticket.update"}
      [] v = "deployment" -> {"deployment.query", "deployment.get"}
      [] OTHER -> {"team.query", "team.get", "team.members"}

UnknownMethods == {"bogus"}

MakeConfig(token, owner, repo, org, state) ==
    [k \in ConfigKeys |->
        CASE k = "token" -> token
          [] k = "owner" -> owner
          [] k = "repo" -> repo
          [] k = "organization" -> org
          [] OTHER -> state]

\* A request without a config member decodes to a nil map: every key absent.
EmptyConfig == MakeConfig(Absent, Absent, Absent, Absent, Absent)

\* Configs requests carry to the ticket and deployment bridges.
RequestConfigs ==
    { EmptyConfig,
      MakeConfig(Str("tokA"), Absent, Str("app"), Absent, Absent),
      MakeConfig(Str("tokA"), Str("acme"), Number, Absent, Absent),
      MakeConfig(Str("tokA"), Str("acme"), Str("app"), Absent, Absent),
      MakeConfig(Str("tokB"), Str("acme"), Str("app"), Absent, Str("closed")) }

\* OPSORCH_TEAM_CONFIG: unset, not JSON, or a JSON object.
TeamEnvs ==
    { [kind |-> "unset", cfg |-> EmptyConfig],
      [kind |-> "badjson", cfg |-> EmptyConfig],
      [kind |-> "json", cfg |-> MakeConfig(Str("tokA"), Absent, Absent, Absent, Absent)],
      [kind |-> "json", cfg |-> MakeConfig(Str("tokA"), Absent, Absent, Str("acme"), Absent)] }

\* payload/params: undecodable, or decoded with the id it names.
Payloads ==
    { [decodable |-> FALSE, id |-> ""] }
        \cup [decodable : {TRUE}, id : {"42", "core"}]

\* rpcRequest (ticket, deployment) and PluginRequest (team, which has no config).
Requests(v) ==
    [present : {TRUE},
     method : DispatchTable(v) \cup UnknownMethods,
     config : IF v = "team" THEN {EmptyConfig} ELSE RequestConfigs,
     payload : Payloads]

NoReq == [present |-> FALSE, method |-> "", config |-> EmptyConfig,
          payload |-> [decodable |-> FALSE, id |-> ""]]

\* rpcResponse / PluginResponse.  `req` is the ordinal of the decoded request
\* it answers (0: it answers no decoded request).
writeOK(n) == [req |-> n, ok |-> TRUE, code |-> "", msg |-> ""]
writeErr(n, msg) == [req |-> n, ok |-> FALSE, code |-> "", msg |-> msg]
PluginError(n, code, msg) == [req |-> n, ok |-> FALSE, code |-> code, msg |-> msg]

UnknownMethodText == "unknown method"
UnmarshalErrorText == "json: cannot unmarshal payload"

\* What the next Decode call returns.  A syntax error and a truncated value
\* stick to the decoder: every later Decode returns the same error.  A value
\* of the wrong type is consumed and the decoder stays usable.
DecodeOutcomes ==
    IF decErr # "none" THEN {decErr}
    ELSE IF nread < MaxReqs THEN {"request", "type", "syntax", "truncated", "EOF"}
    ELSE {"truncated", "EOF"}

Sticky(kind) == IF kind \in {"syntax", "truncated"} THEN kind ELSE decErr

Consumed(kind) == IF kind \in {"request", "type"} THEN nread + 1 ELSE nread

\* err.Error() of a decode error.
DecodeErrorText(kind) ==
    CASE kind = "EOF" -> "EOF"
      [] kind = "truncated" -> "unexpected EOF"
      [] kind = "syntax" -> "invalid character"
      [] OTHER -> "json: cannot unmarshal into Go struct field"

Init ==
    /\ variant \in Variants
    /\ env \in IF variant = "team" THEN TeamEnvs ELSE {[kind |-> "unset", cfg |-> EmptyConfig]}
    /\ pc = IF variant = "team" THEN "boot" ELSE "decode"
    /\ provider = NoProvider
    /\ req = NoReq
    /\ nread = 0
    /\ nreq = 0
    /\ decErr = "none"
    /\ lastDecode = "none"
    /\ responses = <<>>
    /\ calls = 0
    /\ logged = FALSE
    /\ fn = "" /\ arg = "" /\ out = ""

\* ticketplugin and deploymentplugin main: dec.Decode(&req) and its error path.
PluginDecode ==
    /\ variant \in {"ticket", "deployment"}
    /\ pc = "decode"
    /\ \E kind \in DecodeOutcomes :
        /\ lastDecode' = kind
        /\ decErr' = Sticky(kind)
        /\ nread' = Consumed(kind)
        /\ IF kind = "request"
           THEN /\ \E r \in Requests(variant) : req' = r
                /\ nreq' = nreq + 1
                /\ pc' = "init"
                /\ UNCHANGED responses
           ELSE /\ pc' = "done"
                /\ responses' = IF kind = "EOF" THEN responses
                                ELSE Append(responses, writeErr(0, DecodeErrorText(kind)))
                /\ UNCHANGED <<req, nreq>>
    /\ UNCHANGED <<variant, env, provider, calls, logged, pureVars>>

\* PluginInit with the failure path continuing without writeErr.
PluginInitSilent ==
    /\ variant \in {"ticket", "deployment"}
    /\ pc = "init"
    /\ IF provider.bound
       THEN /\ pc' = "dispatch"
            /\ UNCHANGED <<provider, req, responses>>
       ELSE LET r == New(variant, req.config)
            IN IF r.ok
               THEN /\ provider' = r.provider
                    /\ pc' = "dispatch"
                    /\ UNCHANGED <<req, responses>>
               ELSE /\ pc' = "decode"
                    /\ req' = NoReq
                    /\ UNCHANGED <<provider, responses>>
    /\ UNCHANGED <<variant, env, nread, nreq, decErr, lastDecode, calls, logged, pureVars>>

\* PluginInit without the "provider == nil" test: New runs on every request.
PluginInitEager ==
    /\ variant \in {"ticket", "deployment"}
    /\ pc = "init"
    /\ LET r == New(variant, req.config)
       IN IF r.ok
          THEN /\ provider' = r.provider
               /\ pc' = "dispatch"
               /\ UNCHANGED <<req, responses>>
          ELSE /\ responses' = Append(responses, writeErr(nreq, r.err))
               /\ pc' = "decode"
               /\ req' = NoReq
               /\ UNCHANGED provider
    /\ UNCHANGED <<variant, env, nread, nreq, decErr, lastDecode, calls, logged, pureVars>>

\* ticketplugin and deploymentplugin main: "if provider == nil { ... }".
PluginInit ==
    /\ variant \in {"ticket", "deployment"}
    /\ pc = "init"
    /\ IF provider.bound
       THEN /\ pc' = "dispatch"
            /\ UNCHANGED <<provider, req, responses>>
       ELSE LET r == New(variant, req.config)
            IN IF r.ok
               THEN /\ provider' = r.provider
                    /\ pc' = "dispatch"
                    /\ UNCHANGED <<req, responses>>
               ELSE /\ responses' = Append(responses, writeErr(nreq, r.err))
                    /\ pc' = "decode"
                    /\ req' = NoReq
                    /\ UNCHANGED provider
    /\ UNCHANGED <<variant, env, nread, nreq, decErr, lastDecode, calls, logged, pureVars>>

\* The adapter operation a dispatched method runs.
AdapterOp(v, r, up) ==
    CASE v = "ticket" -> TicketOp(r.method, r.payload.id, up)
      [] v = "deployment" -> DeploymentOp(r.method, r.payload.id, up)
      [] OTHER -> TeamOp(r.method, r.payload.id, up)

\* ticketplugin and deploymentplugin main: "switch req.Method { ... }".
PluginDispatch ==
    /\ variant \in {"ticket", "deployment"}
    /\ pc = "dispatch"
    /\ IF req.method \notin DispatchTable(variant)
       THEN /\ responses' = Append(responses, writeErr(nreq, UnknownMethodText))
            /\ UNCHANGED calls
       ELSE IF ~req.payload.decodable
       THEN /\ responses' = Append(responses, writeErr(nreq, UnmarshalErrorText))
            /\ UNCHANGED calls
       ELSE \E up \in Upstreams(req.method) :
              LET r == AdapterOp(variant, req, up)
              IN /\ calls' = calls + r.calls
                 /\ responses' = Append(responses,
                        IF r.ok THEN writeOK(nreq) ELSE writeErr(nreq, r.code))
    /\ pc' = "decode"
    /\ req' = NoReq
    /\ UNCHANGED <<variant, env, provider, nread, nreq, decErr, lastDecode, logged, pureVars>>

\* teamplugin main, before the loop: the config comes from the environment
\* and any failure is log.Fatal.
TeamBoot ==
    /\ variant = "team"
    /\ pc = "boot"
    /\ IF env.kind # "json"
       THEN pc' = "done" /\ UNCHANGED provider
       ELSE LET r == New("team", env.cfg)
            IN IF r.ok THEN pc' = "decode" /\ provider' = r.provider
               ELSE pc' = "done" /\ UNCHANGED provider
    /\ UNCHANGED <<variant, env, req, nread, nreq, decErr, lastDecode, responses, calls,
                   logged, pureVars>>

\* teamplugin main: decoder.Decode(&req); only "EOF" leaves the loop.
TeamDecode ==
    /\ variant = "team"
    /\ pc = "decode"
    /\ \E kind \in DecodeOutcomes :
        /\ lastDecode' = kind
        /\ decErr' = Sticky(kind)
        /\ nread' = Consumed(kind)
        /\ IF kind = "request"
           THEN /\ \E r \in Requests(variant) : req' = r
                /\ nreq' = nreq + 1
                /\ pc' = "handle"
           ELSE /\ pc' = IF kind = "EOF" THEN "done" ELSE "log"
                /\ UNCHANGED <<req, nreq>>
    /\ UNCHANGED <<variant, env, provider, responses, calls, logged, pureVars>>

\* teamplugin main: log.Printf("Failed to decode request") and continue.
TeamLogAndContinue ==
    /\ variant = "team"
    /\ pc = "log"
    /\ logged' = TRUE
    /\ pc' = "decode"
    /\ UNCHANGED <<variant, env, provider, req, nread, nreq, decErr, lastDecode,
                   responses, calls, pureVars>>

\* teamplugin handleRequest.
handleRequest(r, n, up) ==
    IF r.method \notin DispatchTable("team")
    THEN [resp |-> PluginError(n, "method_not_found", UnknownMethodText), calls |-> 0]
    ELSE IF ~r.payload.decodable
    THEN [resp |-> PluginError(n, "bad_request", UnmarshalErrorText), calls |-> 0]
    ELSE LET o == TeamOp(r.method, r.payload.id, up)
         IN [resp |-> IF o.ok THEN writeOK(n) ELSE PluginError(n, "provider_error", o.code),
             calls |-> o.calls]

\* teamplugin main: handleRequest, then encoder.Encode(response).
TeamHandle ==
    /\ variant = "team"
    /\ pc = "handle"
    /\ \E up \in Upstreams(req.method) :
        LET h == handleRequest(req, nreq, up)
        IN /\ responses' = Append(responses, h.resp)
           /\ calls' = calls + h.calls
    /\ pc' = "decode"
    /\ req' = NoReq
    /\ UNCHANGED <<variant, env, provider, nread, nreq, decErr, lastDecode, logged, pureVars>>

Next ==
    \/ PluginDecode
    \/ PluginInit
    \/ PluginDispatch
    \/ TeamBoot
    \/ TeamDecode
    \/ TeamLogAndContinue
    \/ TeamHandle

Spec == Init /\ [][Next]_vars

\* The loops run on: a bridge that can take a step eventually takes it.
FairSpec == Spec /\ WF_vars(Next)

(***************************************************************************)
(* Function-level specification: Init draws a function and an input, the   *)
(* action applies the function as the code computes it.                    *)
(***************************************************************************)

\* deployment Provider.normalizeStatus with the ToLower calls left out.
DeploymentNormalizeStatusCaseSensitive(status, conclusion) ==
    CASE status = "queued" -> "queued"
      [] status = "in_progress" -> "running"
      [] status = "completed" ->
            (CASE conclusion = "success" -> "success"
               [] conclusion = "failure" -> "failed"
               [] conclusion = "cancelled" -> "cancelled"
               [] conclusion = "skipped" -> "cancelled"
               [] conclusion = "timed_out" -> "failed"
               [] conclusion = "action_required" -> "failed"
               [] OTHER -> "failed")
      [] OTHER -> status

\* deployment Provider.normalizeStatus
\* deployment Provider.normalizeStatus answering unknown by default.
DeploymentNormalizeStatusUnknownDefault(status, conclusion) ==
    IF ToLower(status) \in {"queued", "in_progress", "completed"}
    THEN DeploymentNormalizeStatusCaseSensitive(ToLower(status), ToLower(conclusion))
    ELSE "unknown"

\* deployment Provider.normalizeStatus leaving in_progress as it is.
DeploymentNormalizeStatusKeepingInProgress(status, conclusion) ==
    IF ToLower(status) = "in_progress" THEN "in_progress"
    ELSE IF ToLower(status) \in {"queued", "completed"}
    THEN DeploymentNormalizeStatusCaseSensitive(ToLower(status), ToLower(conclusion))
    ELSE status

DeploymentNormalizeStatus(status, conclusion) ==
    LET s == ToLower(status)
        c == ToLower(conclusion)
    IN CASE s = "queued" -> "queued"
         [] s = "in_progress" -> "running"
         [] s = "completed" ->
               (CASE c = "success" -> "success"
                  [] c = "failure" -> "failed"
                  [] c = "cancelled" -> "cancelled"
                  [] c = "skipped" -> "cancelled"
                  [] c = "timed_out" -> "failed"
                  [] c = "action_required" -> "failed"
                  [] OTHER -> "failed")
         [] OTHER -> status

\* strings.Contains(s, sub)
Contains(s, sub) ==
    \E i \in 1..(Len(s) - Len(sub) + 1) : SubSeq(s, i, i + Len(sub) - 1) = sub

\* envPatterns of Provider.extractEnvironment, in its order.
EnvPatterns ==
    <<"prod", "production", "staging", "stage", "dev", "development", "test", "testing">>

\* "for _, env := range envPatterns { if strings.Contains(lower, env) { return env } }",
\* from pattern i on; "" when the loop falls through.
RECURSIVE ScanPatterns(_, _)
ScanPatterns(lower, i) ==
    IF i > Len(EnvPatterns) THEN ""
    ELSE IF Contains(lower, EnvPatterns[i]) THEN EnvPatterns[i]
    ELSE ScanPatterns(lower, i + 1)

\* Provider.extractEnvironment scanning the branch before the workflow name.
ExtractEnvironmentBranchFirst(workflowName, branch) ==
    LET fromName == ScanPatterns(ToLower(workflowName), 1)
        branchLower == ToLower(branch)
        fromBranch == ScanPatterns(branchLower, 1)
    IN IF fromBranch # "" THEN fromBranch
       ELSE IF fromName # "" THEN fromName
       ELSE CASE branchLower \in {"main", "master"} -> "production"
              [] branchLower \in {"develop", "dev"} -> "development"
              [] OTHER -> "development"

\* deployment Provider.extractEnvironment
extractEnvironment(workflowName, branch) ==
    LET fromName == ScanPatterns(ToLower(workflowName), 1)
        branchLower == ToLower(branch)
        fromBranch == ScanPatterns(branchLower, 1)
    IN IF fromName # "" THEN fromName
       ELSE IF fromBranch # "" THEN fromBranch
       ELSE CASE branchLower \in {"main", "master"} -> "production"
              [] branchLower \in {"develop", "dev"} -> "development"
              [] OTHER -> "development"

\* ticket Provider.normalizeStatus returning the lower-cased state by default.
TicketNormalizeStatusLowering(state) ==
    CASE ToLower(state) = "open" -> "open"
      [] ToLower(state) = "closed" -> "closed"
      [] OTHER -> ToLower(state)

\* ticket Provider.normalizeStatus
TicketNormalizeStatus(state) ==
    CASE ToLower(state) = "open" -> "open"
      [] ToLower(state) = "closed" -> "closed"
      [] OTHER -> state

\* team Provider.normalizeRole comparing without ToLower.
NormalizeRoleCaseSensitive(role) ==
    CASE role = "maintainer" -> "owner"
      [] role = "member" -> "member"
      [] OTHER -> "member"

\* team Provider.normalizeRole
normalizeRole(role) ==
    CASE ToLower(role) = "maintainer" -> "owner"
      [] ToLower(role) = "member" -> "member"
      [] OTHER -> "member"

WorkflowNames ==
    {"Deploy to Production", "Deploy to Staging", "Test Deployment", "Build",
     "PROD release", "Development build", "Stage gate", "CI", ""}

Branches ==
    {"main", "master", "Main", "MASTER", "develop", "dev", "feature/xyz",
     "feature/test", "release/prod", "Staging", "production-hotfix", "mainline",
     "stage-eu", ""}

IssueStates ==
    {"open", "Open", "OPEN", "closed", "Closed", "CLOSED", "all", "Merged", "draft", ""}

Roles ==
    {"maintainer", "Maintainer", "MAINTAINER", "member", "Member", "MEMBER",
     "owner", "admin", "unknown", ""}

ConfigValues(strings) == {Absent, Number} \cup {Str(x) : x \in strings}

\* Every config over the five keys: each key absent, a non-string or a string
\* (the empty string included).
AllConfigs ==
    { MakeConfig(t, o, r, g, d) :
        t \in ConfigValues({"", "tokA"}), o \in ConfigValues({"acme"}),
        r \in ConfigValues({"app"}), g \in ConfigValues({"acme"}),
        d \in {Absent, Str("closed")} }

UpstreamStatuses ==
    {"queued", "QUEUED", "Queued", "in_progress", "In_Progress", "IN_PROGRESS",
     "completed", "Completed", "COMPLETED", "unknown", "Unknown", "waiting",
     "requested", ""}

UpstreamConclusions ==
    {"success", "SUCCESS", "failure", "Failure", "cancelled", "CANCELLED",
     "skipped", "Skipped", "timed_out", "TIMED_OUT", "action_required",
     "neutral", "stale", "unknown", ""}

PureInputs ==
    [f : {"New"}, variant : Variants, cfg : AllConfigs]
        \cup [f : {"deployment.normalizeStatus"},
              status : UpstreamStatuses, conclusion : UpstreamConclusions]
        \cup [f : {"deployment.extractEnvironment"},
              workflowName : WorkflowNames, branch : Branches]
        \cup [f : {"ticket.normalizeStatus"}, state : IssueStates]
        \cup [f : {"team.normalizeRole"}, role : Roles]
        \cup [f : {"wrapError"}, variant : Variants, status : ErrStatuses]

Pending == [done |-> FALSE]

PureInit ==
    /\ variant = "ticket"
    /\ env = [kind |-> "unset", cfg |-> EmptyConfig]
    /\ pc = "pure"
    /\ provider = NoProvider
    /\ req = NoReq
    /\ nread = 0
    /\ nreq = 0
    /\ decErr = "none"
    /\ lastDecode = "none"
    /\ responses = <<>>
    /\ calls = 0
    /\ logged = FALSE
    /\ arg \in PureInputs
    /\ fn = arg.f
    /\ out = Pending

\* New(cfg): validation, then github.NewTokenClient, which sends nothing.
CallNew ==
    /\ fn = "New"
    /\ ~out.done
    /\ LET r == New(arg.variant, arg.cfg)
       IN out' = [done |-> TRUE, ok |-> r.ok, err |-> r.err, provider |-> r.provider]
    /\ UNCHANGED <<bridgeVars, fn, arg>>

\* p.normalizeStatus(run.GetStatus(), run.GetConclusion())
CallDeploymentNormalizeStatus ==
    /\ fn = "deployment.normalizeStatus"
    /\ ~out.done
    /\ out' = [done |-> TRUE, v |-> DeploymentNormalizeStatus(arg.status, arg.conclusion)]
    /\ UNCHANGED <<bridgeVars, fn, arg>>

\* p.extractEnvironment(run.GetName(), run.GetHeadBranch())
CallExtractEnvironment ==
    /\ fn = "deployment.extractEnvironment"
    /\ ~out.done
    /\ out' = [done |-> TRUE, v |-> extractEnvironment(arg.workflowName, arg.branch)]
    /\ UNCHANGED <<bridgeVars, fn, arg>>

\* p.normalizeStatus(issue.GetState())
CallTicketNormalizeStatus ==
    /\ fn = "ticket.normalizeStatus"
    /\ ~out.done
    /\ out' = [done |-> TRUE, v |-> TicketNormalizeStatus(arg.state)]
    /\ UNCHANGED <<bridgeVars, fn, arg>>

\* p.normalizeRole(role)
CallNormalizeRole ==
    /\ fn = "team.normalizeRole"
    /\ ~out.done
    /\ out' = [done |-> TRUE, v |-> normalizeRole(arg.role)]
    /\ UNCHANGED <<bridgeVars, fn, arg>>

\* p.wrapError(err) of any of the three providers
CallWrapError ==
    /\ fn = "wrapError"
    /\ ~out.done
    /\ out' = [done |-> TRUE, v |-> wrapError(arg.status)]
    /\ UNCHANGED <<bridgeVars, fn, arg>>

PureNext ==
    \/ CallNew
    \/ CallDeploymentNormalizeStatus
    \/ CallExtractEnvironment
    \/ CallTicketNormalizeStatus
    \/ CallNormalizeRole
    \/ CallWrapError

PureSpec == PureInit /\ [][PureNext]_vars

(***************************************************************************)
(* The adapters' operations, called on a constructed provider.  The        *)
(* upstream answer is the environment's choice: a failure, or the records  *)
(* it holds, of which a list call returns the first page.                  *)
(***************************************************************************)
\* Most records the upstream repository holds.
MaxStore == 2

\* "PerPage: 100, // GitHub's max per page"
MaxPerPage == 100

\* The provider New returns for a valid config.
AdapterProvider ==
    [NoProvider EXCEPT !.bound = TRUE, !.token = "tok", !.owner = "acme", !.repo = "app"]

\* A []string field or pointer that is set.
List(q) == [t |-> "list", v |-> q]

\* github.Issue as ListByRepo returns it: state, and whether PullRequestLinks is set.
IssueKinds == [state : {"open", "closed"}, pr : BOOLEAN]

\* github.WorkflowRun as ListRepositoryWorkflowRuns and GetWorkflowRunByID return it.
RunKinds ==
    {[status |-> "completed", conclusion |-> "success",
      name |-> "Deploy to Production", branch |-> "main"],
     [status |-> "completed", conclusion |-> "failure",
      name |-> "Build", branch |-> "develop"],
     [status |-> "in_progress", conclusion |-> "",
      name |-> "Deploy to Staging", branch |-> "feature/xyz"],
     [status |-> "waiting", conclusion |-> "",
      name |-> "Build", branch |-> "feature/xyz"],
     [status |-> "Requested", conclusion |-> "",
      name |-> "CI", branch |-> "main"]}

\* The first page of a list call: upstream returns at most PerPage records.
ListPage(store, perPage) ==
    SubSeq(store, 1, IF perPage < Len(store) THEN perPage ELSE Len(store))

UpstreamFailure(status) == [ok |-> FALSE, status |-> status]

\* What the one upstream call of an operation can come back with.
ListOutcomes(kinds) ==
    {UpstreamFailure(st) : st \in BridgeStatuses}
        \cup [ok : {TRUE}, store : SeqsUpTo(kinds, MaxStore)]

ItemOutcomes(kinds) ==
    {UpstreamFailure(st) : st \in BridgeStatuses} \cup [ok : {TRUE}, item : kinds]

EditOutcomes == {UpstreamFailure(st) : st \in BridgeStatuses} \cup {[ok |-> TRUE]}

\* ticket Provider.convertIssueToTicket
convertIssueToTicket(issue) == [Status |-> TicketNormalizeStatus(issue.state)]

\* The status loop of ticket Provider.Query keeping the first recognized status.
RECURSIVE TicketPushStateFirstWins(_, _, _)
TicketPushStateFirstWins(statuses, i, state) ==
    IF i > Len(statuses) \/ state # "" THEN state
    ELSE LET s == ToLower(statuses[i])
         IN TicketPushStateFirstWins(statuses, i + 1,
                CASE s \in {"open", "new", "in_progress"} -> "open"
                  [] s \in {"closed", "resolved", "done"} -> "closed"
                  [] OTHER -> state)

\* The status loop of ticket Provider.Query from status i on: each recognized
\* status overwrites opts.State.
RECURSIVE TicketPushState(_, _, _)
TicketPushState(statuses, i, state) ==
    IF i > Len(statuses) THEN state
    ELSE LET s == ToLower(statuses[i])
         IN TicketPushState(statuses, i + 1,
                CASE s \in {"open", "new", "in_progress"} -> "open"
                  [] s \in {"closed", "resolved", "done"} -> "closed"
                  [] OTHER -> state)

\* opts of ticket Provider.Query leaving PerPage at the maximum.
TicketQueryOptsIgnoringLimit(query) ==
    [PerPage |-> MaxPerPage, State |-> TicketPushState(query.Statuses, 1, "")]

\* opts of ticket Provider.Query
TicketQueryOpts(query) ==
    [PerPage |-> IF query.Limit > 0 /\ query.Limit < MaxPerPage
                 THEN query.Limit ELSE MaxPerPage,
     State |-> TicketPushState(query.Statuses, 1, "")]

\* ticket Provider.Query
TicketQuery(query, up) ==
    LET opts == TicketQueryOpts(query)
    IN IF ~up.ok
       THEN [ok |-> FALSE, code |-> wrapError(up.status), calls |-> 1,
             opts |-> opts, page |-> <<>>, result |-> <<>>]
       ELSE LET page == ListPage(up.store, opts.PerPage)
                issues == SelectSeq(page, LAMBDA issue : ~issue.pr)
            IN [ok |-> TRUE, code |-> "", calls |-> 1, opts |-> opts, page |-> page,
                result |-> [k \in 1..Len(issues) |-> convertIssueToTicket(issues[k])]]

\* ticket Provider.Update setting the title whenever the pointer is set.
TicketUpdateRequestKeepsEmptyTitle(input) ==
    [Title |-> input.Title,
     Body |-> IF input.Description # Absent /\ input.Description.v # ""
              THEN input.Description ELSE Absent,
     State |-> IF input.Status # Absent /\ input.Status.v # ""
               THEN CASE ToLower(input.Status.v) \in {"open", "new", "in_progress"}
                           -> Str("open")
                      [] ToLower(input.Status.v) \in {"closed", "resolved", "done"}
                           -> Str("closed")
                      [] OTHER -> Absent
               ELSE Absent,
     Assignees |-> IF input.Assignees # Absent /\ Len(input.Assignees.v) > 0
                   THEN input.Assignees ELSE Absent]

\* issueRequest of ticket Provider.Update
TicketUpdateRequest(input) ==
    [Title |-> IF input.Title # Absent /\ input.Title.v # ""
               THEN input.Title ELSE Absent,
     Body |-> IF input.Description # Absent /\ input.Description.v # ""
              THEN input.Description ELSE Absent,
     State |-> IF input.Status # Absent /\ input.Status.v # ""
               THEN CASE ToLower(input.Status.v) \in {"open", "new", "in_progress"}
                           -> Str("open")
                      [] ToLower(input.Status.v) \in {"closed", "resolved", "done"}
                           -> Str("closed")
                      [] OTHER -> Absent
               ELSE Absent,
     Assignees |-> IF input.Assignees # Absent /\ Len(input.Assignees.v) > 0
                   THEN input.Assignees ELSE Absent]

\* ticket Provider.Update
TicketUpdate(id, input, up) ==
    IF ~ParsesAsInt(id)
    THEN [ok |-> FALSE, code |-> "bad_request", calls |-> 0, sent |-> FALSE]
    ELSE [ok |-> up.ok, code |-> IF up.ok THEN "" ELSE wrapError(up.status),
          calls |-> 1, sent |-> TRUE, request |-> TicketUpdateRequest(input)]

\* deployment Provider.convertWorkflowRunToDeployment
convertWorkflowRunToDeployment(p, run) ==
    [Status |-> DeploymentNormalizeStatus(run.status, run.conclusion),
     Service |-> p.repo,
     Environment |-> extractEnvironment(run.name, run.branch)]

\* The status loop of deployment Provider.Query from status i on.
RECURSIVE DeploymentPushStatus(_, _, _)
DeploymentPushStatus(statuses, i, status) ==
    IF i > Len(statuses) THEN status
    ELSE LET s == ToLower(statuses[i])
         IN DeploymentPushStatus(statuses, i + 1,
                CASE s = "queued" -> "queued"
                  [] s \in {"running", "in_progress"} -> "in_progress"
                  [] s \in {"success", "completed"} -> "completed"
                  [] s = "failed" -> "completed"
                  [] s = "cancelled" -> "completed"
                  [] OTHER -> status)

\* opts of deployment Provider.Query reducing the page size only for limits above 1.
DeploymentQueryOptsAboveOne(query) ==
    [PerPage |-> IF query.Limit > 1 /\ query.Limit < MaxPerPage
                 THEN query.Limit ELSE MaxPerPage,
     Status |-> DeploymentPushStatus(query.Statuses, 1, "")]

\* opts of deployment Provider.Query
DeploymentQueryOpts(query) ==
    [PerPage |-> IF query.Limit > 0 /\ query.Limit < MaxPerPage
                 THEN query.Limit ELSE MaxPerPage,
     Status |-> DeploymentPushStatus(query.Statuses, 1, "")]

\* The status filter of deployment Provider.Query comparing the raw upstream status.
DeploymentStatusFoundRaw(query, run) ==
    \/ Len(query.Statuses) = 0
    \/ \E k \in 1..Len(query.Statuses) :
           ToLower(run.status) = ToLower(query.Statuses[k])

\* "if len(query.Statuses) > 0 { ... strings.EqualFold(normalizedStatus, status) ... }"
DeploymentStatusFound(query, run) ==
    \/ Len(query.Statuses) = 0
    \/ \E k \in 1..Len(query.Statuses) :
           ToLower(DeploymentNormalizeStatus(run.status, run.conclusion))
               = ToLower(query.Statuses[k])

\* deployment Provider.Query
DeploymentQuery(p, query, up) ==
    LET opts == DeploymentQueryOpts(query)
    IN IF ~up.ok
       THEN [ok |-> FALSE, code |-> wrapError(up.status), calls |-> 1,
             opts |-> opts, page |-> <<>>, result |-> <<>>]
       ELSE LET page == ListPage(up.store, opts.PerPage)
                keep(run) ==
                    LET deployment == convertWorkflowRunToDeployment(p, run)
                    IN /\ DeploymentStatusFound(query, run)
                       /\ ~(query.Service # "" /\ deployment.Service # query.Service)
                       /\ ~(query.Environment # ""
                              /\ deployment.Environment # query.Environment)
                runs == SelectSeq(page, keep)
            IN [ok |-> TRUE, code |-> "", calls |-> 1, opts |-> opts, page |-> page,
                result |-> [k \in 1..Len(runs) |->
                               convertWorkflowRunToDeployment(p, runs[k])]]

\* deployment Provider.Get
DeploymentGet(p, id, up) ==
    IF ~ParsesAsInt(id)
    THEN [ok |-> FALSE, code |-> "bad_request", calls |-> 0,
          page |-> <<>>, result |-> <<>>]
    ELSE IF ~up.ok
    THEN [ok |-> FALSE, code |-> wrapError(up.status), calls |-> 1,
          page |-> <<>>, result |-> <<>>]
    ELSE [ok |-> TRUE, code |-> "", calls |-> 1, page |-> <<up.item>>,
          result |-> <<convertWorkflowRunToDeployment(p, up.item)>>]

\* The provider team New returns for a valid config.
TeamProvider ==
    [NoProvider EXCEPT !.bound = TRUE, !.token = "tok", !.organization = "acme"]

\* github.Team as Teams.ListTeams returns it.
TeamKinds ==
    [name : {"Platform", "ops"}, privacy : {"closed", "secret"}, permission : {"pull"}]

\* team Provider.convertTeamToSchema
convertTeamToSchema(p, team) ==
    [Name |-> team.name,
     Tags |-> [provider |-> "github", privacy |-> team.privacy,
               permission |-> team.permission, organization |-> p.organization]]

\* normalizedTeam.Tags[key]: the zero value for a key the map lacks.
TagOf(tags, key) == IF key \in DOMAIN tags THEN tags[key] ELSE ""

\* The tag filter of team Provider.Query letting a team pass on any one matching key.
TeamTagsMatchAny(query, normalizedTeam) ==
    \/ DOMAIN query.Tags = {}
    \/ \E key \in DOMAIN query.Tags : TagOf(normalizedTeam.Tags, key) = query.Tags[key]

\* "if len(query.Tags) > 0 { ... if normalizedTeam.Tags[key] != value { match = false } ... }"
TeamTagsMatch(query, normalizedTeam) ==
    \/ DOMAIN query.Tags = {}
    \/ \A key \in DOMAIN query.Tags : TagOf(normalizedTeam.Tags, key) = query.Tags[key]

\* team Provider.Query
TeamQuery(p, query, up) ==
    LET opts == [PerPage |-> MaxPerPage]
    IN IF ~up.ok
       THEN [ok |-> FALSE, code |-> wrapError(up.status), calls |-> 1,
             opts |-> opts, page |-> <<>>, result |-> <<>>]
       ELSE LET page == ListPage(up.store, opts.PerPage)
                keep(team) ==
                    LET normalizedTeam == convertTeamToSchema(p, team)
                    IN /\ ~(query.Name # ""
                              /\ ~Contains(ToLower(normalizedTeam.Name),
                                           ToLower(query.Name)))
                       /\ TeamTagsMatch(query, normalizedTeam)
                teams == SelectSeq(page, keep)
            IN [ok |-> TRUE, code |-> "", calls |-> 1, opts |-> opts, page |-> page,
                result |-> [k \in 1..Len(teams) |-> convertTeamToSchema(p, teams[k])]]

\* team Provider.Get looking the team up by slug whatever the id.
TeamGetBySlugOnly(p, id, up) ==
    LET o == IssueCalls(1, up, 0)
    IN [ok |-> o.ok, code |-> o.code, calls |-> o.calls,
        result |-> IF o.ok THEN <<convertTeamToSchema(p, up.item)>> ELSE <<>>]

\* team Provider.Get: GetTeamBySlug when the id is no integer, else
\* Organizations.Get and GetTeamByID.
TeamGet(p, id, up) ==
    LET o == IF ParsesAsInt(id) THEN IssueCalls(2, up, 0) ELSE IssueCalls(1, up, 0)
    IN [ok |-> o.ok, code |-> o.code, calls |-> o.calls,
        result |-> IF o.ok THEN <<convertTeamToSchema(p, up.item)>> ELSE <<>>]

\* Most members ListTeamMembersByID returns.
MaxTeam == 2

\* A listed member, with what Users.Get and GetTeamMembershipByID answer for it.
MemberKinds ==
    [login : {"alice", "bob"}, user : {"ok", "fail"},
     membership : {"maintainer", "member", "fail"}]

\* user.GetName() and user.GetEmail() of the upstream accounts.
UserNames == [alice |-> "Alice A", bob |-> ""]
UserEmails == [alice |-> "alice@example.com", bob |-> ""]

\* How the per-member loop fares for a member.
MemberOutcome(member) ==
    IF member.user = "fail" THEN "userFail"
    ELSE IF member.membership = "fail" THEN "roleFail"
    ELSE "ok"

\* The loop body of team Provider.Members taking name and email from the
\* user record even when Users.Get failed.
MemberEntryWithoutFallback(member) ==
    [ID |-> member.login, Name |-> "", Email |-> "", Handle |-> member.login,
     Role |-> normalizeRole(IF member.membership = "fail" \/ member.user = "fail"
                            THEN "member" ELSE member.membership)]

\* The loop body of team Provider.Members: the TeamMember appended for a member.
MemberEntry(member) ==
    IF member.user = "fail"
    THEN [ID |-> member.login, Name |-> member.login, Email |-> "",
          Handle |-> member.login, Role |-> "member"]
    ELSE [ID |-> member.login, Name |-> UserNames[member.login],
          Email |-> UserEmails[member.login], Handle |-> member.login,
          Role |-> normalizeRole(IF member.membership = "fail"
                                 THEN "member" ELSE member.membership)]

\* Round trips of the per-member loop when the membership is looked up for
\* every member.
MemberRoundTripsAlwaysBoth(members) == 2 * Len(members)

\* Round trips of the per-member loop over the listed members.
MemberRoundTrips(members) ==
    MemberLookups([k \in 1..Len(members) |-> MemberOutcome(members[k])])

\* team Provider.Members: GetTeamBySlug when the id is no integer, then
\* Organizations.Get, ListTeamMembersByID and the per-member loop.
TeamMembers(p, teamID, up) ==
    LET o == IssueCalls(IF ParsesAsInt(teamID) THEN 2 ELSE 3, up,
                        MemberRoundTrips(up.members))
    IN [ok |-> o.ok, code |-> o.code, calls |-> o.calls,
        listed |-> IF o.ok THEN up.members ELSE <<>>,
        result |-> IF o.ok
                   THEN [k \in 1..Len(up.members) |-> MemberEntry(up.members[k])]
                   ELSE <<>>]

\* What the calls of team Get come back with: the call that fails, if any.
TeamGetOutcomes == [fail : 0..2, status : BridgeStatuses, item : TeamKinds]

\* What the calls of team Members come back with.
TeamMembersOutcomes ==
    [fail : 1..3, status : BridgeStatuses, members : {<<>>}]
        \cup [fail : {0}, status : {0}, members : SeqsUpTo(MemberKinds, MaxTeam)]

\* ticket Provider.Get
TicketGet(id, up) ==
    IF ~ParsesAsInt(id)
    THEN [ok |-> FALSE, code |-> "bad_request", calls |-> 0, result |-> <<>>]
    ELSE IF ~up.ok
    THEN [ok |-> FALSE, code |-> wrapError(up.status), calls |-> 1, result |-> <<>>]
    ELSE [ok |-> TRUE, code |-> "", calls |-> 1,
          result |-> <<convertIssueToTicket(up.item)>>]

\* ticket Provider.Create
TicketCreate(input, up) ==
    [ok |-> up.ok, code |-> IF up.ok THEN "" ELSE wrapError(up.status), calls |-> 1,
     request |-> [Title |-> Str(input.Title), Body |-> Str(input.Description),
                  Assignees |-> IF input.Assignees # Absent /\ Len(input.Assignees.v) > 0
                                THEN input.Assignees ELSE Absent]]

\* query.Tags values: none, one key, two keys, a key no team carries.
TagQueries ==
    {<<>>, [privacy |-> "closed"], [privacy |-> "closed", permission |-> "admin"],
     [privacy |-> "secret", organization |-> "acme"], [provider |-> "gitlab"],
     [team |-> ""]}

Limits == {-1, 0, 1, 2, 99, 100, 150}

TicketStatusLists ==
    {<<>>, <<"open">>, <<"closed">>, <<"OPEN", "closed">>, <<"closed", "open">>,
     <<"new">>, <<"in_progress">>, <<"resolved", "bogus">>, <<"bogus">>, <<"Done">>}

DeploymentStatusLists ==
    {<<>>, <<"success">>, <<"SUCCESS">>, <<"failed", "cancelled">>, <<"running">>,
     <<"queued", "success">>, <<"in_progress">>, <<"completed">>,
     <<"in_progress", "completed">>, <<"waiting">>, <<"bogus">>}

UpdateStatuses ==
    {Absent, Str(""), Str("open"), Str("NEW"), Str("in_progress"), Str("Closed"),
     Str("resolved"), Str("done"), Str("wontfix"), Str("WontFix")}

AdapterInputs ==
    [f : {"ticket.query"}, Limit : Limits, Statuses : TicketStatusLists]
        \cup [f : {"ticket.update"}, id : {"7", "x"},
              Title : {Absent, Str(""), Str("T")},
              Description : {Absent, Str(""), Str("D")},
              Status : UpdateStatuses,
              Assignees : {Absent, List(<<>>), List(<<"alice">>)}]
        \cup [f : {"deployment.query"}, Limit : Limits,
              Statuses : DeploymentStatusLists,
              Service : {""}, Environment : {""}]
        \cup [f : {"deployment.query"}, Limit : {0},
              Statuses : {<<>>, <<"success">>},
              Service : {"", "app", "other"}, Environment : {"", "prod"}]
        \cup [f : {"deployment.get"}, id : {"42", "x"}]
        \cup [f : {"team.query"}, Name : {"", "plat", "OPS", "o", "core"},
              Tags : TagQueries]
        \cup [f : {"team.get"}, id : {"42", "platform"}]
        \cup [f : {"team.members"}, id : {"42", "platform"}]
        \cup [f : {"ticket.get"}, id : {"7", "x"}]
        \cup [f : {"ticket.create"}, Title : {"T", ""}, Description : {"D", ""},
              Assignees : {Absent, List(<<>>), List(<<"alice">>)}]

AdapterInit ==
    /\ arg \in AdapterInputs
    /\ fn = arg.f
    /\ variant = CASE fn \in {"ticket.query", "ticket.update", "ticket.get",
                               "ticket.create"} -> "ticket"
                   [] fn \in {"deployment.query", "deployment.get"} -> "deployment"
                   [] OTHER -> "team"
    /\ env = [kind |-> "unset", cfg |-> EmptyConfig]
    /\ pc = "adapter"
    /\ provider = IF variant = "team" THEN TeamProvider ELSE AdapterProvider
    /\ req = NoReq
    /\ nread = 0
    /\ nreq = 0
    /\ decErr = "none"
    /\ lastDecode = "none"
    /\ responses = <<>>
    /\ calls = 0
    /\ logged = FALSE
    /\ out = Pending

adapterFrame == <<variant, env, pc, provider, req, nread, nreq, decErr, lastDecode,
                  responses, logged, fn, arg>>

\* p.Query(ctx, query) of the ticket provider
CallTicketQuery ==
    /\ fn = "ticket.query"
    /\ ~out.done
    /\ \E up \in ListOutcomes(IssueKinds) :
          LET r == TicketQuery(arg, up)
          IN /\ out' = [done |-> TRUE, r |-> r,
                        held |-> IF up.ok THEN Len(up.store) ELSE 0]
             /\ calls' = calls + r.calls
    /\ UNCHANGED adapterFrame

\* p.Update(ctx, id, input) of the ticket provider
CallTicketUpdate ==
    /\ fn = "ticket.update"
    /\ ~out.done
    /\ \E up \in EditOutcomes :
          LET r == TicketUpdate(arg.id, arg, up)
          IN /\ out' = [done |-> TRUE, r |-> r]
             /\ calls' = calls + r.calls
    /\ UNCHANGED adapterFrame

\* p.Query(ctx, query) of the deployment provider
CallDeploymentQuery ==
    /\ fn = "deployment.query"
    /\ ~out.done
    /\ \E up \in ListOutcomes(RunKinds) :
          LET r == DeploymentQuery(provider, arg, up)
          IN /\ out' = [done |-> TRUE, r |-> r,
                        held |-> IF up.ok THEN Len(up.store) ELSE 0]
             /\ calls' = calls + r.calls
    /\ UNCHANGED adapterFrame

\* p.Get(ctx, id) of the deployment provider
CallDeploymentGet ==
    /\ fn = "deployment.get"
    /\ ~out.done
    /\ \E up \in ItemOutcomes(RunKinds) :
          LET r == DeploymentGet(provider, arg.id, up)
          IN /\ out' = [done |-> TRUE, r |-> r]
             /\ calls' = calls + r.calls
    /\ UNCHANGED adapterFrame

\* p.Query(ctx, query) of the team provider
CallTeamQuery ==
    /\ fn = "team.query"
    /\ ~out.done
    /\ \E up \in ListOutcomes(TeamKinds) :
          LET r == TeamQuery(provider, arg, up)
          IN /\ out' = [done |-> TRUE, r |-> r,
                        held |-> IF up.ok THEN Len(up.store) ELSE 0]
             /\ calls' = calls + r.calls
    /\ UNCHANGED adapterFrame

\* p.Get(ctx, id) of the team provider
CallTeamGet ==
    /\ fn = "team.get"
    /\ ~out.done
    /\ \E up \in TeamGetOutcomes :
          LET r == TeamGet(provider, arg.id, up)
          IN /\ out' = [done |-> TRUE, r |-> r]
             /\ calls' = calls + r.calls
    /\ UNCHANGED adapterFrame

\* p.Members(ctx, teamID) of the team provider
CallTeamMembers ==
    /\ fn = "team.members"
    /\ ~out.done
    /\ \E up \in TeamMembersOutcomes :
          LET r == TeamMembers(provider, arg.id, up)
          IN /\ out' = [done |-> TRUE, r |-> r]
             /\ calls' = calls + r.calls
    /\ UNCHANGED adapterFrame

\* p.Get(ctx, id) of the ticket provider
CallTicketGet ==
    /\ fn = "ticket.get"
    /\ ~out.done
    /\ \E up \in ItemOutcomes(IssueKinds) :
          LET r == TicketGet(arg.id, up)
          IN /\ out' = [done |-> TRUE, r |-> r]
             /\ calls' = calls + r.calls
    /\ UNCHANGED adapterFrame

\* p.Create(ctx, input) of the ticket provider
CallTicketCreate ==
    /\ fn = "ticket.create"
    /\ ~out.done
    /\ \E up \in EditOutcomes :
          LET r == TicketCreate(arg, up)
          IN /\ out' = [done |-> TRUE, r |-> r]
             /\ calls' = calls + r.calls
    /\ UNCHANGED adapterFrame

AdapterNext ==
    \/ CallTicketQuery
    \/ CallTicketUpdate
    \/ CallDeploymentQuery
    \/ CallDeploymentGet
    \/ CallTeamQuery
    \/ CallTeamGet
    \/ CallTeamMembers
    \/ CallTicketGet
    \/ CallTicketCreate

AdapterSpec == AdapterInit /\ [][AdapterNext]_vars

(***************************************************************************)
(* Properties.                                                             *)
(***************************************************************************)
Last(q) == q[Len(q)]

Min(S) == CHOOSE x \in S : \A y \in S : x <= y

\* The required keys of each adapter, in validation order.
RequiredKeys(v) ==
    IF v = "team" THEN <<"token", "organization">> ELSE <<"token", "owner", "repo">>

\* Positions of the required keys that are missing or hold a non-string.
BadKeys(v, cfg) ==
    {i \in 1..Len(RequiredKeys(v)) : cfg[RequiredKeys(v)[i]].t # "string"}

ConfigValidates(v, cfg) == BadKeys(v, cfg) = {}

Lazy == variant \in {"ticket", "deployment"}

ErrorAppended == Len(responses') = Len(responses) + 1 /\ ~Last(responses').ok

\* C1: in the ticket and deployment bridges the adapter is built lazily.  The
\* bridge starts Uninitialized; every decoded request reaches the construction
\* step; there, an Uninitialized bridge becomes Ready, bound to the request's
\* config, when that config validates, and otherwise answers the request with
\* an error, stays Uninitialized and goes back to read the next request,
\* whose config the next construction step uses.
C1_LazyConstruction ==
    [][Lazy =>
        /\ (nreq = 0 => ~provider.bound)
        /\ (nreq' = nreq + 1 => pc' = "init" /\ req'.present)
        /\ (pc = "init" /\ ~provider.bound /\ ConfigValidates(variant, req.config) =>
              /\ provider'.bound
              /\ provider'.token = req.config["token"].v
              /\ provider'.owner = req.config["owner"].v
              /\ provider'.repo = req.config["repo"].v
              /\ pc' = "dispatch"
              /\ responses' = responses)
        /\ (pc = "init" /\ ~provider.bound /\ ~ConfigValidates(variant, req.config) =>
              /\ ~provider'.bound
              /\ ErrorAppended
              /\ Last(responses').req = nreq
              /\ pc' = "decode")
    ]_vars

\* A lazy bridge that answered its first request with a config error and was
\* made Ready by its second.
C1_Witness ==
    /\ Lazy
    /\ provider.bound
    /\ nreq = 2
    /\ Len(responses) >= 1
    /\ responses[1].req = 1
    /\ responses[1].msg \in {"token is required", "owner is required", "repo is required"}

\* C2: once a bridge is Ready its adapter and the config it is bound to never
\* change, whatever later requests carry, and it never returns to
\* Uninitialized.
C2_ReadyIsFixed == [][provider.bound => provider' = provider]_vars

\* A Ready lazy bridge past the construction step of a request that carries a
\* different valid config.
C2_Witness ==
    /\ Lazy
    /\ provider.bound
    /\ pc = "dispatch"
    /\ ConfigValidates(variant, req.config)
    /\ req.config["token"].v # provider.token

AnsweringRequests == SelectSeq(responses, LAMBDA r : r.req # 0)

\* C3: every decoded request gets exactly one response, written before the
\* next request is read: whenever the bridge is about to read (or has
\* stopped), the responses to requests are those to requests 1..nreq in
\* order, and while request nreq is being handled, those to 1..nreq-1.
C3_OneResponsePerRequestInOrder ==
    /\ Len(AnsweringRequests) = IF pc \in {"init", "dispatch", "handle"} THEN nreq - 1 ELSE nreq
    /\ \A i \in 1..Len(AnsweringRequests) : AnsweringRequests[i].req = i

\* A bridge back at the read after two requests, one of them refused.
C3_Witness ==
    /\ pc = "decode"
    /\ nreq = 2
    /\ Len(responses) = 2
    /\ ~responses[1].ok
    /\ responses[2].ok

UnknownMethod == req.present /\ req.method \notin DispatchTable(variant)

\* C4: a request whose method is not in the dispatch table always gets the
\* unknown-method error, in every variant and state and whatever its config,
\* and the process does not terminate on it.
C4_UnknownMethodAlwaysMethodNotFound ==
    [][UnknownMethod /\ Len(responses') > Len(responses) =>
          /\ ~Last(responses').ok
          /\ Last(responses').msg = UnknownMethodText
          /\ pc' # "done"
    ]_vars

\* C5: handling a request with an unmatched method leaves the adapter alone:
\* none is constructed and no upstream call is made.
C5_UnknownMethodLeavesAdapterAlone ==
    [][UnknownMethod => provider' = provider /\ calls' = calls]_vars

\* The calls of an operation whose failure aborts it.
AbortingCalls(v, r) ==
    CASE v = "team" /\ r.method = "team.get" -> IF ParsesAsInt(r.payload.id) THEN 2 ELSE 1
      [] v = "team" /\ r.method = "team.members" -> IF ParsesAsInt(r.payload.id) THEN 2 ELSE 3
      [] OTHER -> 1

\* C6: after an error response to a request the bridge goes back to read the
\* next request; a Ready bridge stays Ready with the same adapter; and the
\* failed operation issued each of its calls at most once.
C6_ErrorsAreNotFatalNorRetried ==
    [][req.present /\ ErrorAppended =>
          /\ pc' = "decode"
          /\ (provider.bound => provider' = provider)
          /\ calls' - calls <= AbortingCalls(variant, req)
    ]_vars

\* A Ready bridge that answered a request after an upstream failure.
C6_Witness ==
    /\ provider.bound
    /\ \E i \in 1..(Len(responses) - 1) :
          /\ ~responses[i].ok
          /\ responses[i].msg \in {"provider_error", "forbidden", "not_found"}
          /\ responses[i + 1].ok

\* C7: a raw stream decode failure is fatal in every variant.
C7_DecodeFailureIsFatal ==
    lastDecode \in {"type", "syntax", "truncated"} => pc = "done"

\* C8: for every finite input stream the process eventually terminates, and
\* it writes nothing for the end of the stream.
C8_TerminatesAtEndOfStream ==
    /\ <>(pc = "done")
    /\ [][lastDecode' = "EOF" => responses' = responses]_vars

\* C9: New fails exactly when a required key is missing or not a string; the
\* error names the first such key in validation order; nothing was sent
\* upstream.
C9_NewFailsOnFirstBadKey ==
    fn = "New" /\ out.done =>
        LET keys == RequiredKeys(arg.variant)
            bad == BadKeys(arg.variant, arg.cfg)
        IN /\ out.ok <=> bad = {}
           /\ out.ok => out.provider.bound
           /\ ~out.ok => out.err = keys[Min(bad)] \o " is required" /\ ~out.provider.bound
           /\ calls = 0

\* ticket.New refused a config with two bad keys, naming the first.
C9_Witness ==
    /\ fn = "New" /\ out.done
    /\ arg.variant = "ticket"
    /\ arg.cfg["owner"] = Number
    /\ arg.cfg["repo"] = Absent
    /\ out.err = "owner is required"

EqualFold(a, b) == ToLower(a) = ToLower(b)

\* C10: the deployment status table, matched case-insensitively; any other
\* status comes back unchanged; the conclusion counts only when the status is
\* completed.
C10_DeploymentStatusTable ==
    fn = "deployment.normalizeStatus" /\ out.done =>
        LET s == arg.status
            c == arg.conclusion
            completed == EqualFold(s, "completed")
        IN /\ EqualFold(s, "queued") => out.v = "queued"
           /\ EqualFold(s, "in_progress") => out.v = "running"
           /\ completed /\ EqualFold(c, "success") => out.v = "success"
           /\ completed /\ EqualFold(c, "failure") => out.v = "failed"
           /\ completed /\ EqualFold(c, "cancelled") => out.v = "cancelled"
           /\ completed /\ EqualFold(c, "skipped") => out.v = "cancelled"
           /\ completed /\ EqualFold(c, "timed_out") => out.v = "failed"
           /\ completed /\ EqualFold(c, "action_required") => out.v = "failed"
           /\ completed /\ ~(\E k \in {"success", "failure", "cancelled", "skipped",
                                      "timed_out", "action_required"} : EqualFold(c, k))
                 => out.v = "failed"
           /\ ~(\E k \in {"queued", "in_progress", "completed"} : EqualFold(s, k))
                 => out.v = s
           /\ ~completed =>
                 \A c2 \in UpstreamConclusions : DeploymentNormalizeStatus(s, c2) = out.v

\* An upper-case completed run with a mixed-case skipped conclusion.
C10_Witness ==
    /\ fn = "deployment.normalizeStatus" /\ out.done
    /\ arg.status = "COMPLETED"
    /\ arg.conclusion = "Skipped"
    /\ out.v = "cancelled"

\* Positions of the patterns that occur in s, compared without regard to case.
MatchingPatterns(s) ==
    {i \in 1..Len(EnvPatterns) : Contains(ToLower(s), EnvPatterns[i])}

C12_TicketStatusOnReads ==
    fn = "ticket.normalizeStatus" /\ out.done =>
        /\ EqualFold(arg.state, "open") => out.v = "open"
        /\ EqualFold(arg.state, "closed") => out.v = "closed"
        /\ ~EqualFold(arg.state, "open") /\ ~EqualFold(arg.state, "closed")
              => out.v = arg.state

\* A mixed-case state that is neither open nor closed, returned as it came.
C12_Witness ==
    /\ fn = "ticket.normalizeStatus" /\ out.done
    /\ arg.state = "Merged"
    /\ out.v = "Merged"

\* C13: the role is owner exactly for maintainer in any letter case and
\* member for everything else, so it is always owner or member.
C13_RoleNormalization ==
    fn = "team.normalizeRole" /\ out.done =>
        /\ out.v = "owner" <=> EqualFold(arg.role, "maintainer")
        /\ ~EqualFold(arg.role, "maintainer") => out.v = "member"
        /\ out.v \in {"owner", "member"}

\* An upper-case maintainer.
C13_Witness ==
    /\ fn = "team.normalizeRole" /\ out.done
    /\ arg.role = "MAINTAINER"
    /\ out.v = "owner"

\* C14: normalising a normalised value changes nothing, for the ticket status
\* and for the team role.
C14_NormalizationIdempotent ==
    /\ fn = "ticket.normalizeStatus" /\ out.done => TicketNormalizeStatus(out.v) = out.v
    /\ fn = "team.normalizeRole" /\ out.done => normalizeRole(out.v) = out.v

CanonicalStatuses == {"queued", "running", "success", "failed", "cancelled", "unknown"}

\* Deployments a finished deployment operation returned.
Returned == {out.r.result[k] : k \in 1..Len(out.r.result)}

DeploymentReturned ==
    fn \in {"deployment.query", "deployment.get"} /\ out.done /\ out.r.ok

\* C15: every Deployment that Query or Get returns has a status among
\* queued, running, success, failed, cancelled, unknown.
C15_StatusInCanonicalSet ==
    DeploymentReturned => \A d \in Returned : d.Status \in CanonicalStatuses

\* C15 (amended): a returned Deployment's status is queued, running, success,
\* failed or cancelled when the run's upstream status is queued, in_progress
\* or completed in any letter case, and is otherwise the run's raw upstream
\* status unchanged, which need not be a canonical value.
C15_StatusCanonicalOrRaw ==
    DeploymentReturned =>
        \A d \in Returned :
            \/ d.Status \in CanonicalStatuses \ {"unknown"}
            \/ \E j \in 1..Len(out.r.page) :
                  /\ ToLower(out.r.page[j].status)
                        \notin {"queued", "in_progress", "completed"}
                  /\ d.Status = out.r.page[j].status

\* A query that returns a run whose upstream status is waiting.
C15_Witness ==
    /\ fn = "deployment.query" /\ out.done /\ out.r.ok
    /\ \E d \in Returned : d.Status = "waiting"

UpdateSent == fn = "ticket.update" /\ out.done /\ out.r.sent

Present(field) == field # Absent /\ ~(field.t = "string" /\ field.v = "")
                                 /\ ~(field.t = "list" /\ field.v = <<>>)

\* C16: an update with a present, non-empty status sends state open for
\* open, new, in_progress, state closed for closed, resolved, done, and for
\* any other value sends that value, lower-cased, as the state.
C16_UpdateStatusMapping ==
    UpdateSent /\ Present(arg.Status) =>
        LET s == ToLower(arg.Status.v)
        IN out.r.request.State =
              Str(CASE s \in {"open", "new", "in_progress"} -> "open"
                    [] s \in {"closed", "resolved", "done"} -> "closed"
                    [] OTHER -> s)

\* C17: the edit request carries a title, body, state or assignee list only
\* when that input field is present and non-empty (and then the title, body
\* and assignees are the input's); an omitted or empty field is absent from
\* the request.
C17_PartialUpdate ==
    UpdateSent =>
        LET request == out.r.request
        IN /\ request.Title # Absent => Present(arg.Title) /\ request.Title = arg.Title
           /\ request.Body # Absent =>
                 Present(arg.Description) /\ request.Body = arg.Description
           /\ request.State # Absent => Present(arg.Status)
           /\ request.Assignees # Absent =>
                 Present(arg.Assignees) /\ request.Assignees = arg.Assignees
           /\ ~Present(arg.Title) => request.Title = Absent
           /\ ~Present(arg.Description) => request.Body = Absent
           /\ ~Present(arg.Status) => request.State = Absent
           /\ ~Present(arg.Assignees) => request.Assignees = Absent

\* Only the title is given; the description is empty and the rest omitted.
C17_Witness ==
    /\ UpdateSent
    /\ arg.Title = Str("T") /\ arg.Description = Str("")
    /\ arg.Status = Absent /\ arg.Assignees = Absent
    /\ out.r.request =
          [Title |-> Str("T"), Body |-> Absent, State |-> Absent, Assignees |-> Absent]

\* The canonical form of a requested ticket status.
CanonicalTicketStatus(status) ==
    LET s == ToLower(status)
    IN CASE s \in {"open", "new", "in_progress"} -> "open"
         [] s \in {"closed", "resolved", "done"} -> "closed"
         [] OTHER -> s

\* C18: with a non-empty status list, every ticket a query returns has a
\* status equal to the canonical form of some requested status, whatever
\* upstream returned.
C18_TicketStatusFilteredClientSide ==
    fn = "ticket.query" /\ out.done /\ out.r.ok /\ Len(arg.Statuses) > 0 =>
        \A k \in 1..Len(out.r.result) :
            \E i \in 1..Len(arg.Statuses) :
                out.r.result[k].Status = CanonicalTicketStatus(arg.Statuses[i])

\* C19: with a non-empty status list a deployment query returns only
\* deployments whose normalized status equals some requested status without
\* regard to case; with an empty list every run of the page passes (the scope
\* filters aside).
C19_DeploymentStatusFilter ==
    fn = "deployment.query" /\ out.done /\ out.r.ok =>
        /\ Len(arg.Statuses) > 0 =>
              \A d \in Returned :
                  \E i \in 1..Len(arg.Statuses) : EqualFold(d.Status, arg.Statuses[i])
        /\ Len(arg.Statuses) = 0 /\ arg.Service = "" /\ arg.Environment = "" =>
              out.r.result =
                  [k \in 1..Len(out.r.page) |->
                      convertWorkflowRunToDeployment(provider, out.r.page[k])]

\* Upper-case SUCCESS requested; the page holds a successful run and one that
\* is not, and only the successful one is returned.
C19_Witness ==
    /\ fn = "deployment.query" /\ out.done /\ out.r.ok
    /\ arg.Statuses = <<"SUCCESS">>
    /\ Len(out.r.page) = 2
    /\ out.r.page[1].status = "waiting"
    /\ Len(out.r.result) = 1
    /\ out.r.result[1].Status = "success"

\* C20: a ticket or deployment query with a limit in 1..99 returns at most
\* that many records, upstream returning at most the page size asked for, and
\* makes one upstream call only.
C20_LimitIsCeiling ==
    /\ fn \in {"ticket.query", "deployment.query"}
    /\ out.done
    /\ arg.Limit >= 1 /\ arg.Limit <= 99
    => /\ Len(out.r.result) <= arg.Limit
       /\ out.r.calls = 1
       /\ calls = 1

\* Limit 1 while upstream holds more: one record comes back.
C20_Witness ==
    /\ fn = "ticket.query" /\ out.done /\ out.r.ok
    /\ arg.Limit = 1
    /\ out.held > 1
    /\ Len(out.r.result) = 1

QueryDone == fn \in {"ticket.query", "deployment.query"} /\ out.done

\* C21: the page size sent upstream is the caller's limit when the limit is
\* strictly between 1 and 100, and 100 for every other limit (0, 1, negative,
\* 100 or more).
C21_PageSizeStrictlyBetweenOneAndHundred ==
    QueryDone =>
        out.r.opts.PerPage =
            IF arg.Limit > 1 /\ arg.Limit < 100 THEN arg.Limit ELSE 100

\* C21 (amended): the page size sent upstream is the caller's limit when the
\* limit is strictly between 0 and 100 (1 to 99), and 100 for every other
\* limit (0, negative, 100 or more).
C21_PageSizeBetweenZeroAndHundred ==
    QueryDone =>
        out.r.opts.PerPage =
            IF arg.Limit > 0 /\ arg.Limit < 100 THEN arg.Limit ELSE 100

\* A deployment query with limit 1 asks upstream for a page of one.
C21_Witness ==
    /\ fn = "deployment.query" /\ out.done
    /\ arg.Limit = 1
    /\ out.r.opts.PerPage = 1

\* What the claim asks of a returned team: the name holds the query name
\* without regard to case, and every requested tag has the requested value.
TeamWanted(team) ==
    /\ arg.Name # "" => Contains(ToLower(team.Name), ToLower(arg.Name))
    /\ \A key \in DOMAIN arg.Tags :
          \/ (key \in DOMAIN team.Tags /\ team.Tags[key] = arg.Tags[key])
          \/ (key \notin DOMAIN team.Tags /\ arg.Tags[key] = "")

\* C22: a team query returns exactly the teams of the fetched page, in
\* upstream order, whose name contains the query name case-insensitively and
\* whose tags equal every requested tag (a tag a team lacks reads as the
\* empty string); the call carries the page size only.
C22_TeamQueryFiltersClientSide ==
    fn = "team.query" /\ out.done /\ out.r.ok =>
        LET all == [k \in 1..Len(out.r.page) |->
                       convertTeamToSchema(provider, out.r.page[k])]
        IN /\ out.r.result = SelectSeq(all, TeamWanted)
           /\ out.r.opts = [PerPage |-> 100]

\* Two tags requested, two teams on the page, the second matches both tags
\* and the first only one: the second alone is returned.
C22_Witness ==
    /\ fn = "team.query" /\ out.done /\ out.r.ok
    /\ arg.Name = "o" /\ arg.Tags = [privacy |-> "secret", organization |-> "acme"]
    /\ Len(out.r.page) = 2
    /\ out.r.page[1].privacy = "closed" /\ out.r.page[2].privacy = "secret"
    /\ Len(out.r.result) = 1
    /\ out.r.result[1].Name = out.r.page[2].name

\* Team.Members got past the team lookup, the organization lookup and the
\* member listing.
MembersListed == fn = "team.members" /\ out.done /\ out.r.ok

\* C23: when the detailed-user lookup fails for a member the operation still
\* succeeds (it succeeds whenever the listing did), that member is in the
\* result with role member and id, name and handle all equal to its login and
\* no email, and every other member's entry is what it would be on its own.
C23_MembersDegrade ==
    fn = "team.members" /\ out.done =>
        /\ out.r.code = "" => out.r.ok
        /\ out.r.ok =>
              /\ Len(out.r.result) = Len(out.r.listed)
              /\ \A k \in 1..Len(out.r.listed) :
                    LET member == out.r.listed[k]
                        entry == out.r.result[k]
                    IN IF member.user = "fail"
                       THEN entry = [ID |-> member.login, Name |-> member.login,
                                     Handle |-> member.login, Email |-> "",
                                     Role |-> "member"]
                       ELSE /\ entry.Name = UserNames[member.login]
                            /\ entry.Email = UserEmails[member.login]
                            /\ entry.Role = "owner" <=> member.membership = "maintainer"

\* The first member's user lookup fails and the second, a maintainer, is
\* returned in full.
C23_Witness ==
    /\ MembersListed
    /\ Len(out.r.listed) = 2
    /\ out.r.listed[1].user = "fail" /\ out.r.listed[1].membership = "maintainer"
    /\ out.r.listed[2] = [login |-> "alice", user |-> "ok", membership |-> "maintainer"]
    /\ out.r.result[1].Role = "member" /\ out.r.result[1].Name = out.r.listed[1].login
    /\ out.r.result[2].Role = "owner" /\ out.r.result[2].Name = "Alice A"

\* Members of the listing whose detailed-user lookup succeeded.
UsersFound == {k \in 1..Len(out.r.listed) : out.r.listed[k].user = "ok"}

\* C24: every operation issues exactly one upstream round trip, except
\* Team.Members on a team with N listed members, which issues N+2.
C24_OneRoundTripOrNPlusTwo ==
    out.done /\ out.r.ok =>
        calls = IF fn = "team.members" THEN Len(out.r.listed) + 2 ELSE 1

\* C24 (amended): a successful ticket or deployment operation and Team.Query
\* issue one round trip; Team.Get issues one by slug and two by numeric id;
\* Team.Members with N listed members issues two by numeric id or three by
\* slug, plus one per member and one more per member whose user lookup
\* succeeded.  A failed operation issues no more than that, and none when its
\* id does not parse.
C24_RoundTripsPerOperation ==
    out.done =>
        LET most == CASE fn = "team.get" -> IF ParsesAsInt(arg.id) THEN 2 ELSE 1
                      [] fn = "team.members" ->
                            (IF ParsesAsInt(arg.id) THEN 2 ELSE 3)
                                + Len(out.r.listed) + Cardinality(UsersFound)
                      [] OTHER -> 1
        IN /\ calls = out.r.calls
           /\ out.r.ok => calls = most
           /\ ~out.r.ok => calls <= most
           /\ ~out.r.ok /\ out.r.code = "bad_request" /\ "id" \in DOMAIN arg
                 /\ ~ParsesAsInt(arg.id) => calls = 0
           /\ fn = "team.members" /\ out.r.ok =>
                 /\ calls >= Len(out.r.listed) + 2
                 /\ calls <= 2 * Len(out.r.listed) + 3

\* Team.Members by numeric id, two members listed, both user lookups succeed:
\* six round trips.
C24_Witness ==
    /\ MembersListed
    /\ arg.id = "42"
    /\ Len(out.r.listed) = 2
    /\ Cardinality(UsersFound) = 2
    /\ calls = 6

\* C30: when the lookups and the listing succeed, the result has one entry
\* per listed member in upstream order with id and handle equal to the
\* member's login, whichever per-member lookups fail; a failed user lookup
\* costs that member one round trip (no membership lookup) and any other
\* member two; a failed membership lookup after a successful user lookup
\* gives role member.
C30_OneEntryPerListedMember ==
    MembersListed =>
        /\ Len(out.r.result) = Len(out.r.listed)
        /\ \A k \in 1..Len(out.r.listed) :
              /\ out.r.result[k].ID = out.r.listed[k].login
              /\ out.r.result[k].Handle = out.r.listed[k].login
              /\ out.r.listed[k].user = "ok" /\ out.r.listed[k].membership = "fail"
                    => out.r.result[k].Role = "member"
        /\ calls = (IF ParsesAsInt(arg.id) THEN 2 ELSE 3)
                      + Len(out.r.listed) + Cardinality(UsersFound)

\* Two members listed by slug: bob's user lookup fails, alice's membership
\* lookup fails; both are returned in order, with six round trips.
C30_Witness ==
    /\ MembersListed
    /\ arg.id = "platform"
    /\ out.r.listed = <<[login |-> "bob", user |-> "fail", membership |-> "member"],
                        [login |-> "alice", user |-> "ok", membership |-> "fail"]>>
    /\ out.r.result[1].ID = "bob" /\ out.r.result[2].ID = "alice"
    /\ out.r.result[2].Role = "member"
    /\ calls = 6

\* C25: an upstream error response is mapped by its HTTP status, 401 to
\* unauthorized, 403 to forbidden, 404 to not_found, 422 to bad_request and
\* any other status to provider_error; a failure that is no HTTP error
\* response (status 0 here) is provider_error too.  The same in all three
\* adapters.
C25_ErrorStatusMapping ==
    fn = "wrapError" /\ out.done =>
        /\ arg.status = 401 <=> out.v = "unauthorized"
        /\ arg.status = 403 <=> out.v = "forbidden"
        /\ arg.status = 404 <=> out.v = "not_found"
        /\ arg.status = 422 <=> out.v = "bad_request"
        /\ arg.status \notin {401, 403, 404, 422} <=> out.v = "provider_error"

\* A validation error from the team adapter.
C25_Witness ==
    /\ fn = "wrapError" /\ out.done
    /\ arg.variant = "team" /\ arg.status = 422
    /\ out.v = "bad_request"

\* The workflow name holds no environment keyword.
NoKeywordInName == MatchingPatterns(arg.workflowName) = {}

\* C27: for a workflow name without environment keyword the environment
\* follows the README's branch mapping: main or master gives production,
\* develop or dev gives development, a branch containing prod gives
\* production and a branch containing stage gives staging.
C27_ReadmeBranchMapping ==
    fn = "deployment.extractEnvironment" /\ out.done /\ NoKeywordInName =>
        /\ arg.branch \in {"main", "master"} => out.v = "production"
        /\ arg.branch \in {"develop", "dev"} => out.v = "development"
        /\ Contains(arg.branch, "prod") => out.v = "production"
        /\ Contains(arg.branch, "stage") => out.v = "staging"

\* The canonical codes Provider.wrapError produces.
CanonicalCodes == {"unauthorized", "forbidden", "not_found", "bad_request", "provider_error"}

\* C26: in the team bridge the code of the error response for a failed
\* adapter operation is the canonical code of the adapter's error (carried
\* here in the response's message): forbidden for an upstream 403, not_found
\* for a 404, and provider_error only for other failures.
C26_TeamBridgeKeepsAdapterCode ==
    variant = "team" =>
        \A i \in 1..Len(responses) :
            ~responses[i].ok /\ responses[i].msg \in CanonicalCodes
                => responses[i].code = responses[i].msg

\* The upstream parameter a requested status stands for, "" when unrecognized.
UpstreamParameter(status) ==
    LET s == ToLower(status)
    IN IF fn = "ticket.query"
       THEN CASE s \in {"open", "new", "in_progress"} -> "open"
              [] s \in {"closed", "resolved", "done"} -> "closed"
              [] OTHER -> ""
       ELSE CASE s = "queued" -> "queued"
              [] s \in {"running", "in_progress"} -> "in_progress"
              [] s \in {"success", "completed", "failed", "cancelled"} -> "completed"
              [] OTHER -> ""

\* Positions of the requested statuses that are recognized.
Recognized == {i \in 1..Len(arg.Statuses) : UpstreamParameter(arg.Statuses[i]) # ""}

Max(S) == CHOOSE x \in S : \A y \in S : y <= x

\* The one status/state parameter a finished query sent.
Pushed == IF fn = "ticket.query" THEN out.r.opts.State ELSE out.r.opts.Status

\* C28: a query pushes one status/state parameter only, the upstream mapping
\* of the last recognized status of the list; earlier ones are overwritten,
\* unrecognized ones push nothing, and the parameter is unset when none is
\* recognized.
C28_LastRecognizedStatusIsPushed ==
    QueryDone =>
        Pushed = IF Recognized = {} THEN ""
                 ELSE UpstreamParameter(arg.Statuses[Max(Recognized)])

\* OPEN then closed requested of the ticket adapter: closed is pushed.
C28_Witness ==
    /\ fn = "ticket.query" /\ out.done
    /\ arg.Statuses = <<"OPEN", "closed">>
    /\ out.r.opts.State = "closed"

\* C29: a deployment query whose requested statuses are all in_progress or
\* completed returns nothing, whatever the page holds, although the names
\* are pushed upstream.
C29_InProgressAndCompletedMatchNothing ==
    /\ fn = "deployment.query" /\ out.done /\ out.r.ok
    /\ Len(arg.Statuses) > 0
    /\ \A i \in 1..Len(arg.Statuses) : arg.Statuses[i] \in {"in_progress", "completed"}
    => /\ out.r.result = <<>>
       /\ out.r.opts.Status \in {"in_progress", "completed"}

\* in_progress and completed requested; the page holds a run in progress and
\* a completed one, and nothing is returned.
C29_Witness ==
    /\ fn = "deployment.query" /\ out.done /\ out.r.ok
    /\ arg.Statuses = <<"in_progress", "completed">>
    /\ Len(out.r.page) = 2
    /\ out.r.page[1].status = "in_progress" /\ out.r.page[2].status = "completed"
    /\ out.r.opts.Status = "completed"
    /\ out.r.result = <<>>

====
